---- MODULE Spec2Model ----
(***************************************************************************)
(* Model of scripts/generate_app_icon.py: the IconGenerator pipeline       *)
(* (load_stl_layers, transform_meshes, normalize_meshes, generate_svg,     *)
(* the packaging steps) driven by main, and compute_lighting.              *)
(*                                                                         *)
(* Numbers.  Vertex coordinates are rationals: every coordinate of the     *)
(* scene is an integer numerator over one positive scene denominator den   *)
(* (den = 1 until normalize_meshes divides).  Tilt angles are quarter      *)
(* turns, whose sines and cosines are integers.  compute_lighting, which   *)
(* takes square roots, is computed in fixed point on a grid of 1/Res.      *)
(***************************************************************************)
EXTENDS Integers, Sequences, FiniteSets, TLC

VARIABLES
    pc,             \* position of main / generate_all_formats
    stl_dir_exists, \* args.stl_dir.exists()
    layer_numbers,  \* args.layers
    icon_size,      \* args.size
    tilt_forward,   \* args.tilt_forward (degrees)
    tilt_left,      \* args.tilt_left (degrees)
    next_layer,     \* index in layer_numbers of the next loop iteration
    meshes,         \* self.meshes: sequence of [mesh, layer]
    den,            \* the scene's common denominator of vertex coordinates
    finite,         \* FALSE once normalize_meshes divided by a zero extent
    polygons,       \* the polygons added to the drawing, in order
    files,          \* what exists under the output directory
    warnings,       \* the warnings printed, in order
    cairosvg,       \* "unknown" until the first import, then "installed"/"missing"
    raised,         \* the exception that left main, "none" if none
    exit_code,      \* {} until main returns, then the set of the code it returned
    loadable,       \* per processed layer: did some pattern's first match parse
    loaded,         \* the scene as load_stl_layers left it
    transformed,    \* the scene as transform_meshes left it
    ran,            \* the steps of main that completed, in order
    normal,         \* compute_lighting's argument (lighting specification)
    light_dir,      \* compute_lighting's argument (lighting specification)
    intensity       \* {} until compute_lighting returns, then the set of its result

vars == <<pc, stl_dir_exists, layer_numbers, icon_size, tilt_forward, tilt_left,
          next_layer, meshes, den, finite, polygons, files, warnings, cairosvg,
          raised, exit_code, loadable, loaded, transformed, ran,
          normal, light_dir, intensity>>

pipeline_vars == <<pc, stl_dir_exists, layer_numbers, icon_size, tilt_forward,
                   tilt_left, next_layer, meshes, den, finite, polygons, files,
                   warnings, cairosvg, raised, exit_code, loadable, loaded,
                   transformed, ran>>

lighting_vars == <<normal, light_dir, intensity>>

----------------------------------------------------------------------------
(* Bounds of the model *)

MaxLayers == 2      \* longest --layers list
MaxCoord == 1       \* lighting specification: vector components in -MaxCoord..MaxCoord

MaxMeshes == 2      \* scene specification: most meshes in a scene

LayerNums == {1, 3}
IconSizes == {5, 10}
Angles == {0, 90, 180, 270}

\* the command lines of the specification of main
MainIconSizes == {10}
MainAngles == {0, 90}

(* Fixed-point grid of compute_lighting: one unit is 1/Res. *)
Res == 100

----------------------------------------------------------------------------
(* Meshes a layer file may hold.  Faces index vertices from 1. *)

Mesh(vs, fs) == [vertices |-> vs, faces |-> fs]

\* a square in the plane z = 0: one face wound towards +Z, one away from it
Plate == Mesh(<< <<0,0,0>>, <<2,0,0>>, <<0,2,0>>, <<2,2,0>> >>,
              << <<1,2,3>>, <<2,3,4>> >>)
\* a triangle in the plane z = 1
Cap == Mesh(<< <<0,0,1>>, <<2,0,1>>, <<0,2,1>> >>, << <<1,2,3>> >>)
\* a slanted triangle with different extents along the three axes, both windings
Ramp == Mesh(<< <<0,0,0>>, <<2,0,1>>, <<0,1,3>> >>, << <<1,2,3>>, <<1,3,2>> >>)
\* three points on a line parallel to Z: no planar extent at zero tilt
Needle == Mesh(<< <<1,1,0>>, <<1,1,1>>, <<1,1,2>> >>, << <<1,2,3>> >>)

MeshFiles == {Plate, Cap, Ramp, Needle}

\* the meshes the layer files of the specification of main hold
StlFiles == {Plate, Needle}

----------------------------------------------------------------------------
(* Sequences *)

Range(s) == {s[i] : i \in DOMAIN s}

SeqsUpTo(S, n) == UNION {[1..k -> S] : k \in 1..n}

RECURSIVE SumSeq(_)
SumSeq(s) == IF s = <<>> THEN 0 ELSE Head(s) + SumSeq(Tail(s))

Max2(a, b) == IF a >= b THEN a ELSE b

MinOf(S) == CHOOSE x \in S : \A y \in S : x <= y
MaxOf(S) == CHOOSE x \in S : \A y \in S : x >= y

Abs(a) == IF a < 0 THEN 0 - a ELSE a

\* int(): truncation towards zero
Trunc(num, d) == IF num >= 0 THEN num \div d ELSE 0 - ((0 - num) \div d)

RECURSIVE Gcd(_, _)
Gcd(a, b) == IF b = 0 THEN Abs(a) ELSE Gcd(b, a % b)

RECURSIVE GcdSeq(_)
GcdSeq(s) == IF s = <<>> THEN 0 ELSE Gcd(Head(s), GcdSeq(Tail(s)))

----------------------------------------------------------------------------
(* load_stl_layers *)

NPatterns == 3

NoMesh == Mesh(<<>>, <<>>)

(* What the file system answers for one pattern: the glob is empty ("none"),
   its first match does not parse ("bad"), or it parses to a mesh ("ok"). *)
GlobResults ==
    {[status |-> "none", mesh |-> NoMesh], [status |-> "bad", mesh |-> NoMesh]}
    \cup {[status |-> "ok", mesh |-> m] : m \in StlFiles}

(* One answer per pattern.  Every file "layer_NN*.stl" matches is also matched
   by "*layer_NN*.stl", so the second glob is not empty when the first is not. *)
GlobOutcomes ==
    {o \in [1..NPatterns -> GlobResults] :
        o[1].status # "none" => o[2].status # "none"}

Warning(k, n) == [kind |-> k, layer |-> n]

RECURSIVE try_patterns(_, _, _, _)

(* mutant: the first candidate that fails to parse ends the search *)
try_patterns_abort(outs, layer_num, p, warns) ==
    IF p > NPatterns
    THEN [found |-> FALSE, mesh |-> NoMesh, warns |-> warns]
    ELSE IF outs[p].status = "none"
    THEN try_patterns(outs, layer_num, p + 1, warns)
    ELSE IF outs[p].status = "ok"
    THEN [found |-> TRUE, mesh |-> outs[p].mesh, warns |-> warns]
    ELSE [found |-> FALSE, mesh |-> NoMesh,
          warns |-> Append(warns, Warning("load_failed", layer_num))]

(* The loop over the patterns of one layer, from pattern p on. *)
try_patterns(outs, layer_num, p, warns) ==
    IF p > NPatterns
    THEN [found |-> FALSE, mesh |-> NoMesh, warns |-> warns]
    ELSE IF outs[p].status = "none"
    THEN try_patterns(outs, layer_num, p + 1, warns)
    ELSE IF outs[p].status = "ok"
    THEN [found |-> TRUE, mesh |-> outs[p].mesh, warns |-> warns]
    ELSE try_patterns(outs, layer_num, p + 1,
                      Append(warns, Warning("load_failed", layer_num)))

(* One iteration of the loop over layer_numbers. *)
load_layer(outs, layer_num) ==
    try_patterns(outs, layer_num, 1, <<>>)

load_stl_layers_step ==
    /\ pc = "load"
    /\ next_layer <= Len(layer_numbers)
    /\ \E outs \in GlobOutcomes :
         LET layer_num == layer_numbers[next_layer]
             r == load_layer(outs, layer_num)
         IN  /\ meshes' = IF r.found
                          THEN Append(meshes, [mesh |-> r.mesh, layer |-> layer_num])
                          ELSE meshes
             /\ warnings' = IF r.found
                            THEN warnings \o r.warns
                            ELSE warnings \o r.warns
                                 \o <<Warning("not_found", layer_num)>>
             /\ loadable' = Append(loadable,
                                   \E p \in 1..NPatterns : outs[p].status = "ok")
    /\ next_layer' = next_layer + 1
    /\ UNCHANGED <<pc, stl_dir_exists, layer_numbers, icon_size, tilt_forward,
                   tilt_left, den, finite, polygons, files, cairosvg, raised,
                   exit_code, loaded, transformed, ran>>
    /\ UNCHANGED lighting_vars

(* return len(self.meshes) > 0 *)
load_stl_layers_result(ms) == Len(ms) > 0

----------------------------------------------------------------------------
(* Vectors and 3x3 matrices (the rotation part of trimesh's 4x4 matrices) *)

Dot(a, b) == a[1] * b[1] + a[2] * b[2] + a[3] * b[3]

Sub(a, b) == <<a[1] - b[1], a[2] - b[2], a[3] - b[3]>>

\* np.cross
Cross(a, b) == <<a[2] * b[3] - a[3] * b[2],
                 a[3] * b[1] - a[1] * b[3],
                 a[1] * b[2] - a[2] * b[1]>>

Column(m, j) == <<m[1][j], m[2][j], m[3][j]>>

\* np.dot of two matrices
MatMul(a, b) == [i \in 1..3 |-> [j \in 1..3 |-> Dot(a[i], Column(b, j))]]

\* a matrix applied to a point
MatVec(m, v) == <<Dot(m[1], v), Dot(m[2], v), Dot(m[3], v)>>

\* cosine and sine of a whole number of quarter turns, in degrees
Cos(deg) == CASE deg % 360 = 0 -> 1
              [] deg % 360 = 90 -> 0
              [] deg % 360 = 180 -> -1
              [] deg % 360 = 270 -> 0

Sin(deg) == CASE deg % 360 = 0 -> 0
              [] deg % 360 = 90 -> 1
              [] deg % 360 = 180 -> 0
              [] deg % 360 = 270 -> -1

\* trimesh.transformations.rotation_matrix(angle, [1, 0, 0])
rotation_matrix_x(deg) == << <<1, 0, 0>>,
                             <<0, Cos(deg), 0 - Sin(deg)>>,
                             <<0, Sin(deg), Cos(deg)>> >>

\* trimesh.transformations.rotation_matrix(angle, [0, 1, 0])
rotation_matrix_y(deg) == << <<Cos(deg), 0, Sin(deg)>>,
                             <<0, 1, 0>>,
                             <<0 - Sin(deg), 0, Cos(deg)>> >>

\* mutant: the product taken in the other order
concatenate_matrices_swapped(a, b) == MatMul(b, a)

\* trimesh.transformations.concatenate_matrices(a, b): the matrix product a.b
concatenate_matrices(a, b) == MatMul(a, b)

\* Trimesh.apply_transform: every vertex v becomes matrix.v; faces are kept
apply_transform(mesh, matrix) ==
    [mesh EXCEPT !.vertices = [k \in DOMAIN mesh.vertices |->
                                  MatVec(matrix, mesh.vertices[k])]]

----------------------------------------------------------------------------
(* transform_meshes *)

transform_matrix(forward, left) ==
    LET rx == rotation_matrix_x(forward)
        ry == rotation_matrix_y(left)
    IN  concatenate_matrices(rx, ry)

transform_scene(ms, forward, left) ==
    [k \in DOMAIN ms |->
        [ms[k] EXCEPT !.mesh = apply_transform(ms[k].mesh,
                                               transform_matrix(forward, left))]]

transform_meshes ==
    /\ pc = "transform"
    /\ meshes' = transform_scene(meshes, tilt_forward, tilt_left)
    /\ transformed' = meshes'
    /\ ran' = Append(ran, "transform")
    /\ pc' = "normalize"
    /\ UNCHANGED <<stl_dir_exists, layer_numbers, icon_size, tilt_forward,
                   tilt_left, next_layer, den, finite, polygons, files, warnings,
                   cairosvg, raised, exit_code, loadable, loaded>>
    /\ UNCHANGED lighting_vars

----------------------------------------------------------------------------
(* compute_bounds and normalize_meshes *)

\* np.vstack of the vertices of all meshes
all_vertices(ms) ==
    UNION {Range(ms[k].mesh.vertices) : k \in DOMAIN ms}

Coords(ms, axis) == {v[axis] : v \in all_vertices(ms)}

\* compute_bounds: zeros and ones for an empty scene
bounds_min(ms) ==
    IF ms = <<>> THEN <<0, 0, 0>>
    ELSE [axis \in 1..3 |-> MinOf(Coords(ms, axis))]
bounds_max(ms) ==
    IF ms = <<>> THEN <<1, 1, 1>>
    ELSE [axis \in 1..3 |-> MaxOf(Coords(ms, axis))]

\* mutant: np.max(size), the largest of the three extents
max_size_xyz(ms) ==
    LET size == Sub(bounds_max(ms), bounds_min(ms))
    IN  Max2(Max2(size[1], size[2]), size[3])

\* np.max(size[:2]): the larger of the X and Y extents
max_size(ms) ==
    LET size == Sub(bounds_max(ms), bounds_min(ms))
    IN  Max2(size[1], size[2])

(* The padding factor 0.8 = PadNum / PadDen. *)
PadNum == 4
PadDen == 5

(* A numerator n over the scene denominator (which cancels) becomes
       (n - center) * scale + icon_size / 2      (X and Y)
       (n - center) * scale                      (Z)
   with center = (min + max) / 2 and scale = icon_size * 0.8 / max_size, that is
       ((2n - min - max) * PadNum * icon_size + PadDen * max_size * icon_size)
           / (2 * PadDen * max_size)
   without the second summand for Z. *)
normalized_numerator(n, axis, lo, hi, extent, size) ==
    (2 * n - lo[axis] - hi[axis]) * PadNum * size
    + (IF axis = 3 THEN 0 ELSE PadDen * extent * size)

normalized_denominator(extent) == 2 * PadDen * extent

normalize_vertex(v, lo, hi, extent, size) ==
    [axis \in 1..3 |-> normalized_numerator(v[axis], axis, lo, hi, extent, size)]

\* the loop of normalize_meshes: the same center and scale for every mesh
normalize_each(ms, lo, hi, extent, size) ==
    [k \in DOMAIN ms |->
        [ms[k] EXCEPT !.mesh.vertices =
            [j \in DOMAIN ms[k].mesh.vertices |->
                normalize_vertex(ms[k].mesh.vertices[j], lo, hi, extent, size)]]]

\* normalize_meshes on a scene with a planar extent: one box for all meshes
normalize_scene(ms, size) ==
    normalize_each(ms, bounds_min(ms), bounds_max(ms), max_size(ms), size)

\* every numerator of the scene, as one sequence
RECURSIVE Numerators(_)
Numerators(ms) ==
    IF ms = <<>> THEN <<>>
    ELSE LET vs == Head(ms).mesh.vertices
         IN  [i \in 1..(3 * Len(vs)) |-> vs[((i - 1) \div 3) + 1][((i - 1) % 3) + 1]]
             \o Numerators(Tail(ms))

\* the scene's rationals in lowest terms: numerators and denominator divided by g
Reduce(ms, g) ==
    [k \in DOMAIN ms |->
        [ms[k] EXCEPT !.mesh.vertices =
            [j \in DOMAIN ms[k].mesh.vertices |->
                [axis \in 1..3 |-> ms[k].mesh.vertices[j][axis] \div g]]]]

\* the normalized scene and its denominator, in lowest terms
lowest_terms_by(scaled, d, g) ==
    [scene |-> Reduce(scaled, g), den |-> d \div g]

lowest_terms(scaled, d) ==
    lowest_terms_by(scaled, d, Gcd(d, GcdSeq(Numerators(scaled))))

normalize_meshes ==
    /\ pc = "normalize"
    /\ IF max_size(meshes) = 0
       THEN \* the scale is infinite: every X and Y becomes NaN
            /\ finite' = FALSE
            /\ UNCHANGED <<meshes, den>>
       ELSE \E r \in {lowest_terms(normalize_scene(meshes, icon_size),
                                   normalized_denominator(max_size(meshes)))} :
                /\ meshes' = r.scene
                /\ den' = r.den
                /\ UNCHANGED finite
    /\ ran' = Append(ran, "normalize")
    /\ pc' = "svg"
    /\ UNCHANGED <<stl_dir_exists, layer_numbers, icon_size, tilt_forward,
                   tilt_left, next_layer, polygons, files, warnings, cairosvg,
                   raised, exit_code, loadable, loaded, transformed>>
    /\ UNCHANGED lighting_vars

----------------------------------------------------------------------------
(* compute_lighting, in fixed point.
   Norms and the dot product of the two normalised vectors are multiples of
   1/Res, an intensity a multiple of 1/(10 * Res).  The guard 1e-10 added to a
   norm is below the grid: the guarded norm is the first grid value above the
   norm.  Divisions truncate towards zero, so that the sign of the dot product
   is exact. *)

NormSq(v) == Dot(v, v)

RECURSIVE SqrtSearch(_, _, _)
SqrtSearch(n, lo, hi) ==
    IF lo >= hi THEN lo
    ELSE LET mid == (lo + hi + 1) \div 2
         IN  IF mid * mid <= n THEN SqrtSearch(n, mid, hi)
             ELSE SqrtSearch(n, lo, mid - 1)

\* the integer part of the square root (n < 2^31)
ISqrt(n) == SqrtSearch(n, 0, 46340)

\* np.linalg.norm(v) + 1e-10, in 1/Res
guarded_norm(v) == ISqrt(NormSq(v) * Res * Res) + 1

\* np.dot(n / (|n| + 1e-10), l / (|l| + 1e-10)), in 1/Res
normalized_dot(n, l) ==
    Trunc(Trunc(Dot(n, l) * Res * Res, guarded_norm(n)) * Res, guarded_norm(l))

IntensityOne == 10 * Res

\* mutant: the dot product is not clamped at zero
compute_lighting_unclamped(n, l) ==
    normalized_dot(n, l) * 7 + 3 * Res

\* max(0, intensity) * 0.7 + 0.3, in 1/IntensityOne
compute_lighting(n, l) ==
    Max2(0, normalized_dot(n, l)) * 7 + 3 * Res

----------------------------------------------------------------------------
(* generate_svg *)

\* light_dir = np.array([1.0, 0.0, 0.3]), in tenths
LightDir == <<10, 0, 3>>

\* the reference span of the colour gradient: layer_ratio = layer_num / 11.0
LayerSpan == 11

\* np.mean(mesh.vertices[:, 2]) of a before that of b (cross-multiplied)
MeanZLess(a, b) ==
    LET za == [i \in DOMAIN a.vertices |-> a.vertices[i][3]]
        zb == [i \in DOMAIN b.vertices |-> b.vertices[i][3]]
    IN  SumSeq(za) * Len(zb) < SumSeq(zb) * Len(za)

\* mutant: key order reversed (descending mean Z)
insert_sorted_descending(order, k, ms) ==
    LET before == {i \in DOMAIN order :
                      ~ MeanZLess(ms[order[i]].mesh, ms[k].mesh)}
        c == Cardinality(before)
    IN  SubSeq(order, 1, c) \o <<k>> \o SubSeq(order, c + 1, Len(order))

\* mutant: equal keys ordered by layer number
insert_sorted_by_layer(order, k, ms) ==
    LET before == {i \in DOMAIN order :
                      \/ MeanZLess(ms[order[i]].mesh, ms[k].mesh)
                      \/ /\ ~ MeanZLess(ms[k].mesh, ms[order[i]].mesh)
                         /\ ms[order[i]].layer <= ms[k].layer}
        c == Cardinality(before)
    IN  SubSeq(order, 1, c) \o <<k>> \o SubSeq(order, c + 1, Len(order))

(* sorted() is stable: scene entry k goes after every entry already placed
   whose key is not greater than its own. *)
insert_sorted(order, k, ms) ==
    LET before == {i \in DOMAIN order :
                      ~ MeanZLess(ms[k].mesh, ms[order[i]].mesh)}
        c == Cardinality(before)
    IN  SubSeq(order, 1, c) \o <<k>> \o SubSeq(order, c + 1, Len(order))

RECURSIVE sort_first(_, _)
sort_first(ms, n) ==
    IF n = 0 THEN <<>> ELSE insert_sorted(sort_first(ms, n - 1), n, ms)

\* sorted(self.meshes, key=mean z), as positions in self.meshes
sorted_meshes(ms) == sort_first(ms, Len(ms))

\* np.cross(v1 - v0, v2 - v0)
face_normal(mesh, face) ==
    LET v0 == mesh.vertices[face[1]]
        v1 == mesh.vertices[face[2]]
        v2 == mesh.vertices[face[3]]
    IN  Cross(Sub(v1, v0), Sub(v2, v0))

\* mutant: faces wound away from the viewer are kept, the others dropped
front_facing_flipped(mesh, face) == ~ (face_normal(mesh, face)[3] > 0)

\* not (normal[2] < 0)
front_facing(mesh, face) == ~ (face_normal(mesh, face)[3] < 0)

\* int(255 * (a + b * layer_ratio)), a and b in tenths
base_channel(a, b, layer_num) ==
    Trunc(255 * (a * LayerSpan + b * layer_num), 10 * LayerSpan)

base_color(layer_num) == <<base_channel(2, 8, layer_num),
                           base_channel(4, 6, layer_num),
                           base_channel(6, 4, layer_num)>>

\* np.clip(x, 0, 255)
Clip(x) == IF x < 0 THEN 0 ELSE IF x > 255 THEN 255 ELSE x

\* np.clip((base_color * intensity).astype(int), 0, 255)
fill_color(layer_num, light) ==
    [c \in 1..3 |-> Clip(Trunc(base_color(layer_num)[c] * light, IntensityOne))]

\* vertices_3d[:, :2] with y replaced by icon_size - y (numerators over d)
project(v, size, d) == <<v[1], size * d - v[2]>>

(* The polygon of one face; mesh and face say where it comes from. *)
face_polygon(ms, k, f, size, d) ==
    LET mesh == ms[k].mesh
        face == mesh.faces[f]
    IN  [points |-> [i \in 1..3 |-> project(mesh.vertices[face[i]], size, d)],
         fill |-> fill_color(ms[k].layer,
                             compute_lighting(face_normal(mesh, face), LightDir)),
         mesh |-> k,
         face |-> f]

(* With NaN coordinates the normal is NaN: "normal[2] < 0" is false, the points
   are NaN and max(0, nan) is 0. *)
nan_polygon(ms, k, f) ==
    [points |-> <<>>,
     fill |-> fill_color(ms[k].layer, 3 * Res),
     mesh |-> k,
     face |-> f]

\* the loop over the faces of scene entry k, from face f on
RECURSIVE mesh_polygons(_, _, _, _, _, _)
mesh_polygons(ms, k, f, size, d, fin) ==
    IF f > Len(ms[k].mesh.faces) THEN <<>>
    ELSE IF ~ fin
    THEN <<nan_polygon(ms, k, f)>> \o mesh_polygons(ms, k, f + 1, size, d, fin)
    ELSE IF front_facing(ms[k].mesh, ms[k].mesh.faces[f])
    THEN <<face_polygon(ms, k, f, size, d)>>
         \o mesh_polygons(ms, k, f + 1, size, d, fin)
    ELSE mesh_polygons(ms, k, f + 1, size, d, fin)

\* the loop over sorted_meshes, from position i on
RECURSIVE render(_, _, _, _, _, _)
render(ms, order, i, size, d, fin) ==
    IF i > Len(order) THEN <<>>
    ELSE mesh_polygons(ms, order[i], 1, size, d, fin)
         \o render(ms, order, i + 1, size, d, fin)

MeshOrders(n) ==
    {p \in [1..n -> 1..n] : \A i, j \in 1..n : p[i] = p[j] => i = j}

(* The order of the loop over sorted_meshes.  With NaN or infinite keys the
   order sorted() leaves is not modelled: any order is allowed. *)
render_orders(ms, fin) ==
    IF fin THEN {sorted_meshes(ms)} ELSE MeshOrders(Len(ms))

\* mutant: self.meshes.sort(...) in place of sorted(self.meshes, ...)
scene_after_render_sorted(ms) ==
    [i \in DOMAIN ms |-> ms[sorted_meshes(ms)[i]]]

\* generate_svg reads self.meshes: sorted() and the projection work on copies
scene_after_render(ms) == ms

generate_svg ==
    /\ pc = "svg"
    /\ \E order \in render_orders(meshes, finite) :
         polygons' = render(meshes, order, 1, icon_size, den, finite)
    /\ meshes' = scene_after_render(meshes)
    /\ files' = files \cup {"app_icon.svg"}
    /\ ran' = Append(ran, "svg")
    /\ pc' = "icns"
    /\ UNCHANGED <<stl_dir_exists, layer_numbers, icon_size, tilt_forward,
                   tilt_left, next_layer, den, finite, warnings, cairosvg,
                   raised, exit_code, loadable, loaded, transformed>>
    /\ UNCHANGED lighting_vars

----------------------------------------------------------------------------
(* svg_to_png, generate_icns, generate_ico, generate_all_formats *)

(* What the svg_to_png calls of one step do: cairosvg converts ("converted"),
   the import fails and PIL writes a blank image ("fallback"), or cairosvg
   raises something other than ImportError ("error").  Whether cairosvg can be
   imported is settled by the first call. *)
PngOutcomes ==
    CASE cairosvg = "unknown" -> {"converted", "fallback", "error"}
      [] cairosvg = "installed" -> {"converted", "error"}
      [] cairosvg = "missing" -> {"fallback"}

cairosvg_after(png) == IF png = "fallback" THEN "missing" ELSE "installed"

\* subprocess.run(['iconutil', ...], check=True)
IconutilOutcomes == {"ok", "FileNotFoundError", "CalledProcessError"}

\* the exception classes generate_icns catches around iconutil
iconutil_caught(e) == e \in {"FileNotFoundError", "CalledProcessError"}

\* an uncaught exception leaves generate_all_formats and main
raise_from(what, left_behind) ==
    /\ raised' = what
    /\ files' = files \cup left_behind
    /\ pc' = "done"
    /\ UNCHANGED <<warnings, ran, exit_code>>

generate_icns ==
    /\ pc = "icns"
    /\ \E png \in PngOutcomes :
         /\ cairosvg' = cairosvg_after(png)
         /\ IF png = "error"
            THEN raise_from("svg_to_png", {"app_icon.iconset"})
            ELSE \E tool \in IconutilOutcomes :
                   /\ IF tool = "ok"
                      THEN /\ files' = files \cup {"app_icon.icns"}
                           /\ UNCHANGED warnings
                      ELSE /\ iconutil_caught(tool)
                           /\ warnings' = Append(warnings, Warning("iconutil", 0))
                           /\ UNCHANGED files
                   /\ ran' = Append(ran, "icns")
                   /\ pc' = "ico"
                   /\ UNCHANGED <<raised, exit_code>>
    /\ UNCHANGED <<stl_dir_exists, layer_numbers, icon_size, tilt_forward,
                   tilt_left, next_layer, meshes, den, finite, polygons,
                   loadable, loaded, transformed>>
    /\ UNCHANGED lighting_vars

\* pngs[0].save(output_path, format='ICO', ...)
IcoSaveOutcomes == {"ok", "error"}

generate_ico ==
    /\ pc = "ico"
    /\ \E png \in PngOutcomes :
         /\ cairosvg' = cairosvg_after(png)
         /\ IF png = "error"
            THEN raise_from("svg_to_png", {"temp_icon.png"})
            ELSE \E save \in IcoSaveOutcomes :
                   IF save = "error"
                   THEN raise_from("ico_save", {"temp_icon.png"})
                   ELSE /\ files' = files \cup {"app_icon.ico"}
                        /\ ran' = Append(ran, "ico")
                        /\ pc' = "linux"
                        /\ UNCHANGED <<warnings, raised, exit_code>>
    /\ UNCHANGED <<stl_dir_exists, layer_numbers, icon_size, tilt_forward,
                   tilt_left, next_layer, meshes, den, finite, polygons,
                   loadable, loaded, transformed>>
    /\ UNCHANGED lighting_vars

\* the loop over the hicolor sizes at the end of generate_all_formats
generate_linux_pngs ==
    /\ pc = "linux"
    /\ \E png \in PngOutcomes :
         /\ cairosvg' = cairosvg_after(png)
         /\ IF png = "error"
            THEN raise_from("svg_to_png", {})
            ELSE /\ files' = files \cup {"hicolor"}
                 /\ ran' = Append(ran, "linux")
                 /\ pc' = "return"
                 /\ UNCHANGED <<warnings, raised, exit_code>>
    /\ UNCHANGED <<stl_dir_exists, layer_numbers, icon_size, tilt_forward,
                   tilt_left, next_layer, meshes, den, finite, polygons,
                   loadable, loaded, transformed>>
    /\ UNCHANGED lighting_vars

----------------------------------------------------------------------------
(* main *)

ExitFailure == 1
ExitSuccess == 0

\* if not args.stl_dir.exists(): return 1; else the generator is constructed
main_enter ==
    /\ pc = "main"
    /\ IF ~ stl_dir_exists
       THEN /\ exit_code' = {ExitFailure}
            /\ pc' = "done"
       ELSE /\ pc' = "load"
            /\ UNCHANGED exit_code
    /\ UNCHANGED <<stl_dir_exists, layer_numbers, icon_size, tilt_forward,
                   tilt_left, next_layer, meshes, den, finite, polygons, files,
                   warnings, cairosvg, raised, loadable, loaded, transformed,
                   ran>>
    /\ UNCHANGED lighting_vars

\* mutant: the result of load_stl_layers is ignored
main_load_ok_ignored(ms) == TRUE

\* the condition of "if not generator.load_stl_layers(...): return 1"
main_load_ok(ms) == load_stl_layers_result(ms)

\* load_stl_layers returns, and main tests what it returned
main_after_load ==
    /\ pc = "load"
    /\ next_layer > Len(layer_numbers)
    /\ loaded' = meshes
    /\ ran' = Append(ran, "load")
    /\ IF ~ main_load_ok(meshes)
       THEN /\ exit_code' = {ExitFailure}
            /\ pc' = "done"
       ELSE /\ pc' = "transform"
            /\ UNCHANGED exit_code
    /\ UNCHANGED <<stl_dir_exists, layer_numbers, icon_size, tilt_forward,
                   tilt_left, next_layer, meshes, den, finite, polygons, files,
                   warnings, cairosvg, raised, loadable, transformed>>
    /\ UNCHANGED lighting_vars

\* generate_all_formats returned: return 0
main_return ==
    /\ pc = "return"
    /\ exit_code' = {ExitSuccess}
    /\ ran' = Append(ran, "generate_all_formats")
    /\ pc' = "done"
    /\ UNCHANGED <<stl_dir_exists, layer_numbers, icon_size, tilt_forward,
                   tilt_left, next_layer, meshes, den, finite, polygons, files,
                   warnings, cairosvg, raised, loadable, loaded, transformed>>
    /\ UNCHANGED lighting_vars

----------------------------------------------------------------------------
(* The run of main *)

Init ==
    /\ pc = "main"
    /\ stl_dir_exists \in BOOLEAN
    /\ layer_numbers \in SeqsUpTo(LayerNums, MaxLayers)
    /\ icon_size \in MainIconSizes
    /\ tilt_forward \in MainAngles
    /\ tilt_left \in MainAngles
    /\ next_layer = 1
    /\ meshes = <<>>
    /\ den = 1
    /\ finite = TRUE
    /\ polygons = <<>>
    /\ files = {}
    /\ warnings = <<>>
    /\ cairosvg = "unknown"
    /\ raised = "none"
    /\ exit_code = {}
    /\ loadable = <<>>
    /\ loaded = <<>>
    /\ transformed = <<>>
    /\ ran = <<>>
    /\ normal = <<0, 0, 0>>
    /\ light_dir = LightDir
    /\ intensity = {}

Next ==
    \/ main_enter
    \/ load_stl_layers_step
    \/ main_after_load
    \/ transform_meshes
    \/ normalize_meshes
    \/ generate_svg
    \/ generate_icns
    \/ generate_ico
    \/ generate_linux_pngs
    \/ main_return

Spec == Init /\ [][Next]_vars

----------------------------------------------------------------------------
(* The scene stages alone: transform_meshes, normalize_meshes, generate_svg
   from every state load_stl_layers can leave with the meshes of MeshFiles. *)

Scenes == SeqsUpTo([mesh : MeshFiles, layer : LayerNums], MaxMeshes)

SceneInit ==
    /\ pc = "transform"
    /\ stl_dir_exists = TRUE
    /\ meshes \in Scenes
    /\ layer_numbers = [k \in DOMAIN meshes |-> meshes[k].layer]
    /\ icon_size \in IconSizes
    /\ tilt_forward \in Angles
    /\ tilt_left \in Angles
    /\ next_layer = Len(meshes) + 1
    /\ den = 1
    /\ finite = TRUE
    /\ polygons = <<>>
    /\ files = {}
    /\ warnings = <<>>
    /\ cairosvg = "unknown"
    /\ raised = "none"
    /\ exit_code = {}
    /\ loadable = [k \in DOMAIN meshes |-> TRUE]
    /\ loaded = meshes
    /\ transformed = <<>>
    /\ ran = <<"load">>
    /\ normal = <<0, 0, 0>>
    /\ light_dir = LightDir
    /\ intensity = {}

SceneNext ==
    \/ transform_meshes
    \/ normalize_meshes
    \/ generate_svg

SpecScene == SceneInit /\ [][SceneNext]_vars

----------------------------------------------------------------------------
(* compute_lighting alone, on every pair of non-zero vectors of the bound *)

NonZeroVectors ==
    {v \in [1..3 -> (0 - MaxCoord)..MaxCoord] : v # <<0, 0, 0>>}

LightingInit ==
    /\ pc = "lighting"
    /\ stl_dir_exists = TRUE
    /\ layer_numbers = <<>>
    /\ icon_size \in MainIconSizes
    /\ tilt_forward = 0
    /\ tilt_left = 0
    /\ next_layer = 1
    /\ meshes = <<>>
    /\ den = 1
    /\ finite = TRUE
    /\ polygons = <<>>
    /\ files = {}
    /\ warnings = <<>>
    /\ cairosvg = "unknown"
    /\ raised = "none"
    /\ exit_code = {}
    /\ loadable = <<>>
    /\ loaded = <<>>
    /\ transformed = <<>>
    /\ ran = <<>>
    /\ normal \in NonZeroVectors
    /\ light_dir \in NonZeroVectors
    /\ intensity = {}

compute_lighting_call ==
    /\ pc = "lighting"
    /\ intensity = {}
    /\ intensity' = {compute_lighting(normal, light_dir)}
    /\ UNCHANGED <<normal, light_dir>>
    /\ UNCHANGED pipeline_vars

LightingNext == compute_lighting_call

SpecLighting == LightingInit /\ [][LightingNext]_vars

----------------------------------------------------------------------------
(* Properties *)

Ran(step) == step \in Range(ran)

Rendered == Ran("svg") /\ finite

\* where polygon number a comes from
PolyMesh(a) == meshes[polygons[a].mesh].mesh
PolyLayer(a) == meshes[polygons[a].mesh].layer

\* Z coordinates of a mesh, and the comparison of two mean Z values
ZSum(mesh) == SumSeq([i \in DOMAIN mesh.vertices |-> mesh.vertices[i][3]])
MeanZBelow(m1, m2) == ZSum(m1) * Len(m2.vertices) < ZSum(m2) * Len(m1.vertices)
MeanZEqual(m1, m2) == ZSum(m1) * Len(m2.vertices) = ZSum(m2) * Len(m1.vertices)

(* C1: after generate_svg, a polygon of a mesh with lower mean Z comes before
   every polygon of a mesh with higher mean Z, wherever the two meshes stand in
   the scene, and the polygons of one mesh come in face order. *)
C1_DepthOrder ==
    Rendered =>
        \A a, b \in DOMAIN polygons :
            /\ MeanZBelow(PolyMesh(a), PolyMesh(b)) => a < b
            /\ (polygons[a].mesh = polygons[b].mesh
                /\ polygons[a].face < polygons[b].face) => a < b

\* a mesh added later, with lower mean Z, has its polygons emitted first
C1_Witness ==
    /\ Rendered
    /\ \E a, b \in DOMAIN polygons :
         /\ a < b
         /\ polygons[a].mesh > polygons[b].mesh
         /\ MeanZBelow(PolyMesh(a), PolyMesh(b))
    /\ \E a, b \in DOMAIN polygons :
         a # b /\ polygons[a].mesh = polygons[b].mesh

\* Z component of cross(v1 - v0, v2 - v0) for face f of scene entry k
NormalZ(k, f) ==
    LET vs == meshes[k].mesh.vertices
        face == meshes[k].mesh.faces[f]
        v0 == vs[face[1]]
        v1 == vs[face[2]]
        v2 == vs[face[3]]
    IN  (v1[1] - v0[1]) * (v2[2] - v0[2]) - (v1[2] - v0[2]) * (v2[1] - v0[1])

FacesOfScene ==
    UNION {{<<k, f>> : f \in DOMAIN meshes[k].mesh.faces} : k \in DOMAIN meshes}

PolygonsOf(k, f) ==
    {a \in DOMAIN polygons : polygons[a].mesh = k /\ polygons[a].face = f}

(* C2: after generate_svg, a face whose normal has negative Z has no polygon,
   every other face has exactly one, and the number of polygons is the number
   of faces whose normal Z is not negative. *)
C2_BackFaceCulling ==
    Rendered =>
        /\ \A kf \in FacesOfScene :
             Cardinality(PolygonsOf(kf[1], kf[2]))
                 = IF NormalZ(kf[1], kf[2]) < 0 THEN 0 ELSE 1
        /\ Len(polygons)
             = Cardinality({kf \in FacesOfScene : NormalZ(kf[1], kf[2]) >= 0})

\* a render that culled a face, kept an edge-on face and kept a front face
C2_Witness ==
    /\ Rendered
    /\ \E kf \in FacesOfScene : NormalZ(kf[1], kf[2]) < 0
    /\ \E kf \in FacesOfScene : NormalZ(kf[1], kf[2]) = 0
    /\ \E kf \in FacesOfScene : NormalZ(kf[1], kf[2]) > 0

\* a point turned about the X axis, and about the Y axis
RotX(v, deg) == <<v[1],
                  Cos(deg) * v[2] - Sin(deg) * v[3],
                  Sin(deg) * v[2] + Cos(deg) * v[3]>>
RotY(v, deg) == <<Cos(deg) * v[1] + Sin(deg) * v[3],
                  v[2],
                  Cos(deg) * v[3] - Sin(deg) * v[1]>>

VertexIds ==
    UNION {{<<k, j>> : j \in DOMAIN loaded[k].mesh.vertices} : k \in DOMAIN loaded}

LoadedVertex(kj) == loaded[kj[1]].mesh.vertices[kj[2]]
TransformedVertex(kj) == transformed[kj[1]].mesh.vertices[kj[2]]

(* C3 as claimed: transform_meshes maps every vertex v to Ry(left) applied to
   Rx(forward) applied to v (X rotation first, Y rotation second). *)
C3_XThenY ==
    Ran("transform") =>
        \A kj \in VertexIds :
            TransformedVertex(kj)
                = RotY(RotX(LoadedVertex(kj), tilt_forward), tilt_left)

(* C3 amended: transform_meshes maps every vertex v to Rx(forward) applied to
   Ry(left) applied to v (Y rotation first, X rotation second), keeps the
   faces and layer numbers, and neither scales nor translates. *)
C3_YThenX ==
    Ran("transform") =>
        /\ DOMAIN transformed = DOMAIN loaded
        /\ \A k \in DOMAIN loaded :
             /\ transformed[k].layer = loaded[k].layer
             /\ transformed[k].mesh.faces = loaded[k].mesh.faces
             /\ DOMAIN transformed[k].mesh.vertices
                  = DOMAIN loaded[k].mesh.vertices
        /\ \A kj \in VertexIds :
             TransformedVertex(kj)
                 = RotX(RotY(LoadedVertex(kj), tilt_left), tilt_forward)

\* a transform by two quarter turns of a vertex on which the two orders differ
C3_Witness ==
    /\ Ran("transform")
    /\ tilt_forward = 90
    /\ tilt_left = 90
    /\ \E kj \in VertexIds :
         RotX(RotY(LoadedVertex(kj), tilt_left), tilt_forward)
             # RotY(RotX(LoadedVertex(kj), tilt_forward), tilt_left)

\* the X,Y bounding box of the whole scene, in numerators
BoxLo(axis) == MinOf({v[axis] : v \in all_vertices(meshes)})
BoxHi(axis) == MaxOf({v[axis] : v \in all_vertices(meshes)})

\* the X,Y bounding box before normalize_meshes is not a single point
PlanarExtent(ms) ==
    \E v, w \in all_vertices(ms) : v[1] # w[1] \/ v[2] # w[2]

(* C4: after normalize_meshes of a scene whose X,Y bounding box is not a
   single point, the bounding box of all meshes together has its longer X/Y
   side equal to icon_size * 0.8 and its centre at (icon_size/2, icon_size/2),
   and every vertex of every mesh went through the same centre and scale. *)
C4_Normalized ==
    (Ran("normalize") /\ PlanarExtent(transformed)) =>
        LET lo == bounds_min(transformed)
            hi == bounds_max(transformed)
            ext == Max2(hi[1] - lo[1], hi[2] - lo[2])
        IN  /\ den > 0
            /\ 5 * Max2(BoxHi(1) - BoxLo(1), BoxHi(2) - BoxLo(2))
                 = 4 * icon_size * den
            /\ BoxLo(1) + BoxHi(1) = icon_size * den
            /\ BoxLo(2) + BoxHi(2) = icon_size * den
            /\ \A k \in DOMAIN meshes :
                 \A j \in DOMAIN meshes[k].mesh.vertices :
                   \A axis \in 1..3 :
                     \* n'/den = (n - (lo+hi)/2) * (0.8 icon / ext) [+ icon/2]
                     meshes[k].mesh.vertices[j][axis] * 10 * ext
                       = den * ((2 * transformed[k].mesh.vertices[j][axis]
                                   - lo[axis] - hi[axis]) * 4 * icon_size
                                + (IF axis = 3 THEN 0
                                   ELSE 5 * ext * icon_size))

\* two meshes with different boxes, the scene wider in Z than in X and Y
C4_Witness ==
    /\ Ran("normalize")
    /\ PlanarExtent(transformed)
    /\ Len(meshes) >= 2
    /\ bounds_max(<<transformed[1]>>) # bounds_max(<<transformed[2]>>)
    /\ bounds_max(transformed)[3] - bounds_min(transformed)[3]
         > max_size(transformed)
    /\ BoxHi(1) - BoxLo(1) # BoxHi(2) - BoxLo(2)

\* a packaging step failed: iconutil, the .ico assembly or a PNG conversion
IconutilFailed == \E i \in DOMAIN warnings : warnings[i].kind = "iconutil"
PackagingFailed == IconutilFailed \/ raised \in {"svg_to_png", "ico_save"}

(* C5: when a packaging step failed (iconutil missing or failing, the .ico
   assembly failing, a PNG conversion failing), the run still ends with main
   returning 0, the failure was only a warning, and the master SVG, the .ico
   and the Linux PNG set are there. *)
C5_PackagingNonFatal ==
    (pc = "done" /\ PackagingFailed) =>
        /\ raised = "none"
        /\ exit_code = {0}
        /\ {"app_icon.svg", "app_icon.ico", "hicolor"} \subseteq files

(* C6: main returns 1 when the directory is missing or no mesh was loaded, and
   then none of transform, normalize and the generation steps ran; it returns
   0 when a mesh was loaded and all of them completed. *)
C6_ExitCode ==
    /\ (pc = "done" /\ ~ stl_dir_exists) => (exit_code = {1} /\ ran = <<>>)
    /\ (pc = "done" /\ stl_dir_exists /\ Len(meshes) = 0) =>
           (exit_code = {1} /\ ran = <<"load">>)
    /\ (pc = "done" /\ stl_dir_exists /\ Len(meshes) > 0 /\ raised = "none") =>
           /\ exit_code = {0}
           /\ ran = <<"load", "transform", "normalize", "svg", "icns", "ico",
                      "linux", "generate_all_formats">>
    /\ (1 \in exit_code) => (~ stl_dir_exists \/ Len(meshes) = 0)
    /\ (pc # "done") => exit_code = {}

\* two layers requested, none loaded: main returned 1 after load_stl_layers
C6_Witness ==
    /\ pc = "done"
    /\ stl_dir_exists
    /\ Len(layer_numbers) = 2
    /\ Len(meshes) = 0
    /\ exit_code = {1}

\* the processed layers that had a candidate that parses
LoadableIdx == {i \in DOMAIN loadable : loadable[i]}

\* the i-th of them, in request order
NthLoadable(n) ==
    CHOOSE i \in LoadableIdx : Cardinality({j \in LoadableIdx : j <= i}) = n

NotFoundWarnings(layer_num) ==
    Cardinality({i \in DOMAIN warnings :
                    warnings[i] = Warning("not_found", layer_num)})

(* C7: load_stl_layers goes through every requested layer; a layer with no
   candidate that parses is skipped with a warning, every other layer adds
   exactly one (mesh, layer number) pair, in request order; the call fails
   only when the scene is empty at the end. *)
C7_LoadLayers ==
    /\ pc = "load" => Len(loadable) = next_layer - 1
    /\ Len(meshes) = Cardinality(LoadableIdx)
    /\ \A n \in DOMAIN meshes : meshes[n].layer = layer_numbers[NthLoadable(n)]
    /\ \A l \in LayerNums :
         NotFoundWarnings(l)
             = Cardinality({i \in DOMAIN loadable :
                               ~ loadable[i] /\ layer_numbers[i] = l})
    /\ Ran("load") =>
         /\ Len(loadable) = Len(layer_numbers)
         /\ (pc = "done" /\ ran = <<"load">>) <=> Len(meshes) = 0

\* a layer skipped after a candidate failed to parse, then a layer loaded
\* from its second candidate
C7_Witness ==
    /\ Ran("load")
    /\ Len(loadable) = 2
    /\ ~ loadable[1]
    /\ loadable[2]
    /\ Len(meshes) = 1
    /\ \E i, j \in DOMAIN warnings :
         /\ warnings[i] = Warning("load_failed", layer_numbers[1])
         /\ warnings[j] = Warning("load_failed", layer_numbers[2])

\* some scene entry present before and after the step differs
SceneTouched ==
    \E k \in (DOMAIN meshes) \cap (DOMAIN meshes') : meshes'[k] # meshes[k]

(* C8: generate_svg leaves the scene as it was (same pairs, same order, same
   vertices and faces); scene entries change only in transform_meshes and
   normalize_meshes, which run in that order before generate_svg. *)
C8_RenderReadsOnly ==
    [][/\ pc = "svg" => meshes' = meshes
       /\ SceneTouched => pc \in {"transform", "normalize"}
       /\ pc' = "svg" => ran' = <<"load", "transform", "normalize">>
       /\ pc' = "normalize" => ran' = <<"load", "transform">>]_vars

\* a render whose depth order is not the scene's order
C8_Witness ==
    /\ Rendered
    /\ Len(polygons) >= 2
    /\ \E a, b \in DOMAIN polygons : a < b /\ polygons[a].mesh > polygons[b].mesh
    /\ meshes # transformed

(* C9 as claimed: of two meshes with equal mean Z, the polygons of the one
   with the lower layer number come first. *)
C9_TieByLayer ==
    Rendered =>
        \A a, b \in DOMAIN polygons :
            (MeanZEqual(PolyMesh(a), PolyMesh(b)) /\ PolyLayer(a) < PolyLayer(b))
                => a < b

(* C9 amended: of two meshes with equal mean Z, the polygons of the one added
   to the scene first come first, whatever the layer numbers. *)
C9_TieBySceneOrder ==
    Rendered =>
        \A a, b \in DOMAIN polygons :
            (MeanZEqual(PolyMesh(a), PolyMesh(b))
             /\ polygons[a].mesh < polygons[b].mesh) => a < b

\* equal mean Z, the higher layer number added first and emitted first
C9_Witness ==
    /\ Rendered
    /\ \E a, b \in DOMAIN polygons :
         /\ a < b
         /\ polygons[a].mesh < polygons[b].mesh
         /\ MeanZEqual(PolyMesh(a), PolyMesh(b))
         /\ PolyLayer(a) > PolyLayer(b)

\* the two vectors are parallel and point the same way
SameDirection(u, v) == Cross(u, v) = <<0, 0, 0>> /\ Dot(u, v) > 0

(* C10: for non-zero vectors compute_lighting returns a value in [0.3, 1.0];
   it is 0.3 whenever the dot product is zero or negative, and it is 1.0 only
   for parallel vectors that point the same way. *)
C10_LightingRange ==
    \A x \in intensity :
        /\ 10 * x >= 3 * IntensityOne
        /\ x <= IntensityOne
        /\ Dot(normal, light_dir) <= 0 => 10 * x = 3 * IntensityOne
        /\ x = IntensityOne => SameDirection(normal, light_dir)

\* a call with vectors that point away from each other
C10_Witness ==
    /\ intensity # {}
    /\ Dot(normal, light_dir) < 0
    /\ normal[1] # 0 /\ normal[2] # 0 /\ normal[3] # 0

====
